---- MODULE Spec2Model ----
(***************************************************************************)
(* The layout engine of render.rs: best() and its fitting() probe, driving *)
(* a sink through the Render / RenderAnnotated traits.                     *)
(*                                                                         *)
(* A `&Doc` is modelled as the path of the node below the root document    *)
(* (<<>> is the root, 1 the first child, 2 the second child), so that a    *)
(* work item (usize, Mode, &Doc) is the record [ind, mode, doc].           *)
(* Strings are sequences of one-character strings.                         *)
(***************************************************************************)
EXTENDS Integers, Sequences, FiniteSets, TLC

VARIABLES doc, width, sink, pc, cmd, bcmds, fcmds, annotation_levels, pos,
          wbuf, spaces, inserted, out, calls, result, color_stack, upstream

vars == <<doc, width, sink, pc, cmd, bcmds, fcmds, annotation_levels, pos,
          wbuf, spaces, inserted, out, calls, result, color_stack, upstream>>

----------------------------------------------------------------------------
(* Bounds of the model *)

MaxWidth == 3
MaxNodes == 4
MaxLayoutNodes == 7
MaxAnnNodes == 5
MaxChoiceNodes == 6
MaxPartialNodes == 3
MaxCalls == 4

(* const SPACES: ten times ten spaces *)
SpacesLen == 100

----------------------------------------------------------------------------
(* The document tree (enum Doc) *)

Nil == [tag |-> "Nil"]
Space == [tag |-> "Space"]
Newline == [tag |-> "Newline"]
Text(s) == [tag |-> "Text", s |-> s]
DocAppend(ldoc, rdoc) == [tag |-> "Append", l |-> ldoc, r |-> rdoc]
FlatAlt(b, f) == [tag |-> "FlatAlt", l |-> b, r |-> f]
Nest(off, d) == [tag |-> "Nest", off |-> off, l |-> d]
Group(d) == [tag |-> "Group", l |-> d]
Annotated(ann, d) == [tag |-> "Annotated", ann |-> ann, l |-> d]
Union(l, r) == [tag |-> "Union", l |-> l, r |-> r]

Mode == {"Break", "Flat"}

Binary == {"Append", "FlatAlt", "Union"}
Unary == {"Nest", "Group", "Annotated"}

(* The node a reference points to: the subtree of d at path p *)
RECURSIVE Sub(_, _)
Sub(d, p) ==
    IF p = <<>> THEN d
    ELSE Sub(IF Head(p) = 1 THEN d.l ELSE d.r, Tail(p))

Node(p) == Sub(doc, p)

----------------------------------------------------------------------------
(* The documents and sinks the engine is run on *)

Wrap(u, d) == [u EXCEPT !.l = d]
Join(b, l, r) == [tag |-> b, l |-> l, r |-> r]

(* Every tree of exactly n nodes over the given leaves, unary wrappers    *)
(* (records whose field l is replaced by the child) and binary tags.      *)
RECURSIVE DocsOfSize(_, _, _, _)
DocsOfSize(n, leaves, un, bin) ==
    IF n = 1 THEN leaves
    ELSE {Wrap(u, d) : u \in un, d \in DocsOfSize(n - 1, leaves, un, bin)}
         \cup UNION {
              {Join(b, l, r) : b \in bin,
                               l \in DocsOfSize(k, leaves, un, bin),
                               r \in DocsOfSize(n - 1 - k, leaves, un, bin)}
              : k \in 1 .. (n - 2)}

DocsUpTo(n, leaves, un, bin) ==
    UNION {DocsOfSize(k, leaves, un, bin) : k \in 1 .. n}

(* All variants, up to MaxNodes nodes *)
GeneralDocs ==
    DocsUpTo(MaxNodes,
             {Nil, Space, Newline, Text(<<"a">>), Text(<<"b", "b">>)},
             {Nest(1, Nil), Group(Nil), Annotated("S1", Nil)},
             Binary)

(* Groups of text and breakable spaces, up to MaxLayoutNodes nodes *)
LayoutDocs ==
    DocsUpTo(MaxLayoutNodes,
             {Space, Text(<<"a">>)},
             {Group(Nil)},
             {"Append"})

(* Annotated spans, up to MaxAnnNodes nodes *)
AnnDocs ==
    DocsUpTo(MaxAnnNodes,
             {Text(<<"a">>)},
             {Annotated("S1", Nil), Annotated("S2", Nil)},
             {"Append"})

(* Groups and Unions of text and breakable spaces, up to MaxChoiceNodes    *)
(* nodes                                                                   *)
ChoiceDocs ==
    DocsUpTo(MaxChoiceNodes,
             {Nil, Space, Text(<<"a">>)},
             {Group(Nil)},
             {"Append", "Union"})

(* Text and hard newlines under indentation larger than SPACES, up to     *)
(* MaxPartialNodes nodes                                                   *)
PartialDocs ==
    DocsUpTo(MaxPartialNodes,
             {Newline, Text(<<"a", "b", "c">>)},
             {Nest(SpacesLen + 1, Nil)},
             {"Append"})

Docs == GeneralDocs \cup LayoutDocs \cup AnnDocs \cup ChoiceDocs

Widths == 0 .. MaxWidth

(* The errors a sink may return *)
Errors == {"E1", "E2"}

----------------------------------------------------------------------------
(* The sink: Render and RenderAnnotated *)

Call(op, arg, res) == [op |-> op, arg |-> arg, res |-> res]

(* What a sink call may return *)
SinkResults == IF sink.faulty THEN {"ok"} \cup Errors ELSE {"ok"}

(* write_str(s) -> count: how many characters the sink may consume. A sink *)
(* that writes partially takes one character, all but one, or all.         *)
Counts(s) ==
    IF sink.partial
    THEN {n \in 1 .. Len(s) : n = 1 \/ n >= Len(s) - 1}
    ELSE {Len(s)}

(* A failed sink call whose error is dropped: the render goes on *)
FailSwallowed(op, arg, e) ==
    /\ pc' = "pop"
    /\ calls' = Append(calls, Call(op, arg, e))
    /\ UNCHANGED <<color_stack, upstream, doc, width, sink, cmd, bcmds, fcmds, annotation_levels, pos,
                   wbuf, spaces, inserted, out, result>>

(* The `?` operator on a failed sink call: best() returns the error *)
Fail(op, arg, e) ==
    /\ pc' = "err"
    /\ result' = e
    /\ calls' = Append(calls, Call(op, arg, e))
    /\ UNCHANGED <<color_stack, upstream, doc, width, sink, cmd, bcmds, fcmds, annotation_levels, pos,
                   wbuf, spaces, inserted, out>>

----------------------------------------------------------------------------
(* fitting() *)

Last(s) == s[Len(s)]
Front(s) == SubSeq(s, 1, Len(s) - 1)

(* The budget counted as exceeded one column early *)
ExceededOffByOne(rem) == rem <= 0

(* if rem < 0 { return false; } *)
Exceeded(rem) == rem < 0

(* The scratch stack not cleared *)
KeepScratch(fc) == fc

(* fcmds.clear() *)
ClearScratch(fc) == <<>>

(* A hard newline counted as fitting in every mode *)
GroupNewlineFitsAlways == [m \in {"Break", "Flat"} |-> TRUE]

(* |mode| mode == Mode::Break, the predicate of a Group *)
GroupNewlineFits == [m \in Mode |-> m = "Break"]
(* A hard newline counted as fitting in no mode *)
UnionNewlineFitsNever == [m \in {"Break", "Flat"} |-> FALSE]

(* |_| true, the predicate of a Union *)
UnionNewlineFits == [m \in Mode |-> TRUE]

(* The mode the probe gives to a pending item of bcmds *)
PendingMode(item) == "Break"

(* The two loops of fitting(): FitLoop is the outer loop (take the next    *)
(* document from fcmds, else from bcmds), FitDoc the inner one (match      *)
(* *doc). Both return the verdict and the scratch stack as it is left.     *)
RECURSIVE FitLoop(_, _, _, _, _, _), FitDoc(_, _, _, _, _, _, _)
FitLoop(fc, bidx, mode, rem, bc, newline_fits) ==
    IF fc = <<>>
    THEN IF bidx = 0
         THEN [fits |-> TRUE, fcmds |-> fc]
         ELSE FitDoc(bc[bidx].doc, fc, bidx - 1, PendingMode(bc[bidx]), rem,
                     bc, newline_fits)
    ELSE FitDoc(Last(fc), Front(fc), bidx, mode, rem, bc, newline_fits)

FitDoc(p, fc, bidx, mode, rem, bc, newline_fits) ==
    LET d == Node(p) IN
    CASE d.tag = "Nil" -> FitLoop(fc, bidx, mode, rem, bc, newline_fits)
      [] d.tag = "Append" ->
            FitDoc(p \o <<1>>, Append(fc, p \o <<2>>), bidx, mode, rem, bc,
                   newline_fits)
      [] d.tag = "Space" ->
            IF mode = "Flat"
            THEN IF Exceeded(rem - 1)
                 THEN [fits |-> FALSE, fcmds |-> fc]
                 ELSE FitLoop(fc, bidx, mode, rem - 1, bc, newline_fits)
            ELSE [fits |-> TRUE, fcmds |-> fc]
      [] d.tag = "Newline" -> [fits |-> newline_fits[mode], fcmds |-> fc]
      [] d.tag = "Text" ->
            IF Exceeded(rem - Len(d.s))
            THEN [fits |-> FALSE, fcmds |-> fc]
            ELSE FitLoop(fc, bidx, mode, rem - Len(d.s), bc, newline_fits)
      [] d.tag = "FlatAlt" ->
            FitDoc(p \o (IF mode = "Break" THEN <<1>> ELSE <<2>>),
                   fc, bidx, mode, rem, bc, newline_fits)
      [] d.tag \in {"Nest", "Group", "Annotated"} ->
            FitDoc(p \o <<1>>, fc, bidx, mode, rem, bc, newline_fits)
      [] d.tag = "Union" ->
            FitDoc(p \o <<2>>, fc, bidx, mode, rem, bc, newline_fits)

Fitting(next, bc, fc, rem, newline_fits) ==
    FitLoop(Append(ClearScratch(fc), next), Len(bc), "Flat", rem, bc,
            newline_fits)

----------------------------------------------------------------------------
(* best(): the state after the let bindings *)

Item(ind, mode, p) == [ind |-> ind, mode |-> mode, doc |-> p]

Init ==
    /\ doc \in Docs
    /\ width \in Widths
    /\ sink = [partial |-> FALSE, faulty |-> TRUE]
    /\ pc = "pop"
    /\ cmd = Item(0, "Break", <<>>)
    /\ bcmds = <<Item(0, "Break", <<>>)>>
    /\ fcmds = <<>>
    /\ annotation_levels = <<>>
    /\ pos = 0
    /\ wbuf = <<>>
    /\ spaces = 0
    /\ inserted = 0
    /\ out = <<>>
    /\ calls = <<>>
    /\ result = "none"
    /\ color_stack = <<>>
    /\ upstream = [style |-> "default", res |-> "ok"]

(* while let Some(mut cmd) = bcmds.pop() ... Ok(()) *)
PopCmd ==
    /\ pc = "pop"
    /\ IF bcmds = <<>>
       THEN /\ pc' = "done"
            /\ result' = "Ok"
            /\ UNCHANGED <<cmd, bcmds>>
       ELSE /\ pc' = "match"
            /\ cmd' = Last(bcmds)
            /\ bcmds' = Front(bcmds)
            /\ UNCHANGED result
    /\ UNCHANGED <<color_stack, upstream, doc, width, sink, fcmds, annotation_levels, pos, wbuf,
                   spaces, inserted, out, calls>>

(* The arms that rewrite cmd and `continue` leave everything else alone *)
Continue(c, bc, fc, levels) ==
    /\ pc' = "match"
    /\ cmd' = c
    /\ bcmds' = bc
    /\ fcmds' = fc
    /\ annotation_levels' = levels
    /\ UNCHANGED <<color_stack, upstream, doc, width, sink, pos, wbuf, spaces, inserted, out, result>>

(* Doc::Nil => {} *)
ArmNil ==
    /\ pc = "match"
    /\ Node(cmd.doc).tag = "Nil"
    /\ pc' = "check"
    /\ UNCHANGED <<color_stack, upstream, doc, width, sink, cmd, bcmds, fcmds, annotation_levels, pos,
                   wbuf, spaces, inserted, out, calls, result>>

(* Every right operand pushed in mode Flat *)
PushModeFlat(mode) == "Flat"

(* bcmds.push((ind, mode, rdoc)): the mode stored with a pushed item *)
PushMode(mode) == mode

(* The pushes of the Append arm: rdoc, then the right operand of every    *)
(* Append down the left spine; .doc is the first node that is no Append.  *)
RECURSIVE Spine(_, _, _, _)
Spine(p, ind, mode, bc) ==
    IF Node(p).tag = "Append"
    THEN Spine(p \o <<1>>, ind, mode,
               Append(bc, Item(ind, PushMode(mode), p \o <<2>>)))
    ELSE [doc |-> p, bcmds |-> bc]

ArmAppend ==
    /\ pc = "match"
    /\ Node(cmd.doc).tag = "Append"
    /\ LET s == Spine(cmd.doc, cmd.ind, cmd.mode, bcmds) IN
       Continue(Item(cmd.ind, cmd.mode, s.doc), s.bcmds, fcmds,
                annotation_levels)
    /\ UNCHANGED calls

(* The flat branch taken whatever the mode *)
FlatAltBranchFlat(mode) == <<2>>

(* match mode { Mode::Break => b, Mode::Flat => f } *)
FlatAltBranch(mode) == IF mode = "Break" THEN <<1>> ELSE <<2>>

ArmFlatAlt ==
    /\ pc = "match"
    /\ Node(cmd.doc).tag = "FlatAlt"
    /\ Continue(Item(cmd.ind, cmd.mode, cmd.doc \o FlatAltBranch(cmd.mode)),
                bcmds, fcmds, annotation_levels)
    /\ UNCHANGED calls

(* A Group met in mode Flat entered in mode Break *)
FlatGroupModeBreak == "Break"

(* The mode a Group met in mode Flat is entered with *)
FlatGroupMode == "Flat"

ArmGroup ==
    /\ pc = "match"
    /\ Node(cmd.doc).tag = "Group"
    /\ IF cmd.mode = "Flat"
       THEN Continue(Item(cmd.ind, FlatGroupMode, cmd.doc \o <<1>>), bcmds,
                     fcmds, annotation_levels)
       ELSE LET rem == width - pos
                f == Fitting(cmd.doc \o <<1>>, bcmds, fcmds, rem,
                             GroupNewlineFits)
            IN Continue(Item(cmd.ind, IF f.fits THEN "Flat" ELSE "Break",
                             cmd.doc \o <<1>>),
                        bcmds, f.fcmds, annotation_levels)
    /\ UNCHANGED calls

(* The offset replacing the indentation instead of adding to it *)
NestIndReplace(ind, off) == off

(* cmd = (ind + off, mode, doc) *)
NestInd(ind, off) == ind + off

ArmNest ==
    /\ pc = "match"
    /\ Node(cmd.doc).tag = "Nest"
    /\ Continue(Item(NestInd(cmd.ind, Node(cmd.doc).off), cmd.mode,
                     cmd.doc \o <<1>>),
                bcmds, fcmds, annotation_levels)
    /\ UNCHANGED calls

(* The leaf arms start a write: write_spaces(1), write_newline(ind) or    *)
(* write_str_all(s)                                                        *)
StartWrite(to, s, n) ==
    /\ pc' = to
    /\ wbuf' = s
    /\ spaces' = n
    /\ inserted' = 0
    /\ UNCHANGED <<color_stack, upstream, doc, width, sink, cmd, bcmds, fcmds, annotation_levels, pos,
                   out, calls, result>>

ArmSpace ==
    /\ pc = "match"
    /\ Node(cmd.doc).tag = "Space"
    /\ IF cmd.mode = "Flat"
       THEN StartWrite("flat_space", <<>>, 1)
       ELSE StartWrite("newline", <<"\n">>, cmd.ind)

ArmNewline ==
    /\ pc = "match"
    /\ Node(cmd.doc).tag = "Newline"
    /\ StartWrite("newline", <<"\n">>, cmd.ind)

ArmText ==
    /\ pc = "match"
    /\ Node(cmd.doc).tag = "Text"
    /\ StartWrite("text", Node(cmd.doc).s, 0)

ArmAnnotated ==
    /\ pc = "match"
    /\ Node(cmd.doc).tag = "Annotated"
    /\ \E res \in SinkResults :
          IF res = "ok"
          THEN /\ calls' = Append(calls, Call("push_annotation",
                                              <<Node(cmd.doc).ann>>, "ok"))
               /\ Continue(Item(cmd.ind, cmd.mode, cmd.doc \o <<1>>), bcmds,
                           fcmds, Append(annotation_levels, Len(bcmds)))
          ELSE Fail("push_annotation", <<Node(cmd.doc).ann>>, res)

ArmUnion ==
    /\ pc = "match"
    /\ Node(cmd.doc).tag = "Union"
    /\ LET rem == width - pos
           f == Fitting(cmd.doc \o <<1>>, bcmds, fcmds, rem, UnionNewlineFits)
       IN Continue(Item(cmd.ind, cmd.mode,
                        IF f.fits THEN cmd.doc \o <<1>> ELSE cmd.doc \o <<2>>),
                   bcmds, f.fcmds, annotation_levels)
    /\ UNCHANGED calls

(* One call of write_str(s) that the sink accepts a prefix of *)
Accept(s, n) ==
    /\ out' = out \o SubSeq(s, 1, n)
    /\ calls' = Append(calls, Call("write_str", SubSeq(s, 1, n), "ok"))

(* The chunk not advanced at all: the same chunk is offered again *)
RestStuck(s, count) == s

(* The chunk advanced by one character whatever the sink consumed *)
RestByOne(s, count) == SubSeq(s, 2, Len(s))

(* s = &s[count..] *)
Rest(s, count) == SubSeq(s, count + 1, Len(s))

(* Render::write_str_all, for a Text (pc = "text") and for the "\n" of     *)
(* write_newline (pc = "newline")                                          *)
WriteStrAll ==
    /\ pc \in {"text", "newline"}
    /\ IF wbuf # <<>>
       THEN \E res \in SinkResults :
               IF res = "ok"
               THEN \E count \in Counts(wbuf) :
                       /\ Accept(wbuf, count)
                       /\ wbuf' = Rest(wbuf, count)
                       /\ UNCHANGED <<color_stack, upstream, doc, width, sink, pc, cmd, bcmds, fcmds,
                                      annotation_levels, pos, spaces, inserted,
                                      result>>
               ELSE Fail("write_str", wbuf, res)
       ELSE /\ IF pc = "text"
               THEN /\ pos' = pos + Len(Node(cmd.doc).s)
                    /\ pc' = "check"
               ELSE /\ pc' = "nl_spaces"
                    /\ UNCHANGED pos
            /\ UNCHANGED <<color_stack, upstream, doc, width, sink, cmd, bcmds, fcmds,
                           annotation_levels, wbuf, spaces, inserted, out,
                           calls, result>>

Min(a, b) == IF a < b THEN a ELSE b

(* &SPACES[..insert] *)
SpacesPrefix(insert) == [i \in 1 .. insert |-> " "]

(* The column after a Space written in mode Flat *)
FlatSpacePos(p) == p

(* write_spaces, for a Space in mode Flat (pc = "flat_space") and for the  *)
(* indentation of write_newline (pc = "nl_spaces"), which ends with        *)
(* pos = ind                                                               *)
WriteSpaces ==
    /\ pc \in {"flat_space", "nl_spaces"}
    /\ IF inserted < spaces
       THEN LET insert == Min(SpacesLen, spaces - inserted) IN
            \E res \in SinkResults :
               IF res = "ok"
               THEN \E count \in Counts(SpacesPrefix(insert)) :
                       /\ Accept(SpacesPrefix(insert), count)
                       /\ inserted' = inserted + count
                       /\ UNCHANGED <<color_stack, upstream, doc, width, sink, pc, cmd, bcmds, fcmds,
                                      annotation_levels, pos, wbuf, spaces,
                                      result>>
               ELSE Fail("write_str", SpacesPrefix(insert), res)
       ELSE /\ pc' = "check"
            /\ pos' = IF pc = "nl_spaces" THEN cmd.ind ELSE FlatSpacePos(pos)
            /\ UNCHANGED <<color_stack, upstream, doc, width, sink, cmd, bcmds, fcmds,
                           annotation_levels, wbuf, spaces, inserted, out,
                           calls, result>>

(* A level taken as reached after every work item *)
LevelReachedAlways(levels, bc) == TRUE

(* annotation_levels.last() == Some(&bcmds.len()) *)
LevelReached(levels, bc) == levels # <<>> /\ Last(levels) = Len(bc)

(* if annotation_levels.last() == Some(&bcmds.len()) { pop; pop_annotation()? } *)
CheckAnnotation ==
    /\ pc = "check"
    /\ IF LevelReached(annotation_levels, bcmds)
       THEN \E res \in SinkResults :
               /\ annotation_levels' = Front(annotation_levels)
               /\ calls' = Append(calls, Call("pop_annotation", <<>>, res))
               /\ IF res = "ok"
                  THEN pc' = "pop" /\ UNCHANGED result
                  ELSE pc' = "err" /\ result' = res
               /\ UNCHANGED <<color_stack, upstream, doc, width, sink, cmd, bcmds, fcmds, pos,
                              wbuf, spaces, inserted, out>>
       ELSE /\ pc' = "pop"
            /\ UNCHANGED <<color_stack, upstream, doc, width, sink, cmd, bcmds, fcmds,
                           annotation_levels, pos, wbuf, spaces, inserted, out,
                           calls, result>>

Next ==
    \/ PopCmd
    \/ ArmNil
    \/ ArmAppend
    \/ ArmFlatAlt
    \/ ArmGroup
    \/ ArmNest
    \/ ArmSpace
    \/ ArmNewline
    \/ ArmText
    \/ ArmAnnotated
    \/ ArmUnion
    \/ WriteStrAll
    \/ WriteSpaces
    \/ CheckAnnotation

Spec == Init /\ [][Next]_vars

----------------------------------------------------------------------------
(* TermColored: the sink that styles a terminal. upstream is the style of  *)
(* the last set_color / reset call made on the writer ("default" for       *)
(* reset and for a new writer) and what that call returned.                *)

Styles == {"S1", "S2"}

(* Vec::pop: nothing happens on an empty vector *)
VecPop(s) == IF s = <<>> THEN <<>> ELSE Front(s)

(* A pop that always resets the writer *)
RestyleReset(stack) == "default"

(* match self.color_stack.last() { Some(previous) => set_color(previous),  *)
(*                                 None => reset() }                       *)
Restyle(stack) == IF stack = <<>> THEN "default" ELSE Last(stack)

(* TermColored::push_annotation *)
TermPush ==
    /\ pc = "term"
    /\ Len(calls) < MaxCalls
    /\ \E color \in Styles, res \in SinkResults :
          /\ color_stack' = Append(color_stack, color)
          /\ upstream' = [style |-> color, res |-> res]
          /\ calls' = Append(calls, Call("push_annotation", <<color>>, res))
    /\ UNCHANGED <<doc, width, sink, pc, cmd, bcmds, fcmds, annotation_levels,
                   pos, wbuf, spaces, inserted, out, result>>

(* TermColored::pop_annotation *)
TermPop ==
    /\ pc = "term"
    /\ Len(calls) < MaxCalls
    /\ \E res \in SinkResults :
          /\ color_stack' = VecPop(color_stack)
          /\ upstream' = [style |-> Restyle(color_stack'), res |-> res]
          /\ calls' = Append(calls, Call("pop_annotation", <<>>, res))
    /\ UNCHANGED <<doc, width, sink, pc, cmd, bcmds, fcmds, annotation_levels,
                   pos, wbuf, spaces, inserted, out, result>>

(* TermColored::new, then any calls of the two methods *)
InitTerm ==
    /\ doc = Nil
    /\ width = 0
    /\ sink = [partial |-> FALSE, faulty |-> TRUE]
    /\ pc = "term"
    /\ cmd = Item(0, "Break", <<>>)
    /\ bcmds = <<>>
    /\ fcmds = <<>>
    /\ annotation_levels = <<>>
    /\ pos = 0
    /\ wbuf = <<>>
    /\ spaces = 0
    /\ inserted = 0
    /\ out = <<>>
    /\ calls = <<>>
    /\ result = "none"
    /\ color_stack = <<>>
    /\ upstream = [style |-> "default", res |-> "ok"]

NextTerm == TermPush \/ TermPop

SpecTerm == InitTerm /\ [][NextTerm]_vars

(* best() on a sink that never fails and may write partially; the loop of  *)
(* best() is the only thread and keeps running until it returns            *)
InitPartial ==
    /\ doc \in GeneralDocs \cup PartialDocs
    /\ width \in Widths
    /\ sink = [partial |-> TRUE, faulty |-> FALSE]
    /\ pc = "pop"
    /\ cmd = Item(0, "Break", <<>>)
    /\ bcmds = <<Item(0, "Break", <<>>)>>
    /\ fcmds = <<>>
    /\ annotation_levels = <<>>
    /\ pos = 0
    /\ wbuf = <<>>
    /\ spaces = 0
    /\ inserted = 0
    /\ out = <<>>
    /\ calls = <<>>
    /\ result = "none"
    /\ color_stack = <<>>
    /\ upstream = [style |-> "default", res |-> "ok"]

SpecPartial == InitPartial /\ [][Next]_vars /\ WF_vars(Next)

----------------------------------------------------------------------------
(* What the properties below measure on a document and on the output *)

(* The variants occurring in d *)
RECURSIVE Tags(_)
Tags(d) ==
    {d.tag} \cup (IF d.tag \in Binary THEN Tags(d.l) \cup Tags(d.r)
                  ELSE IF d.tag \in Unary THEN Tags(d.l) ELSE {})

(* Flattened length: a Text by its length, a Space as one column, a        *)
(* FlatAlt by its flat branch, a Union by its second alternative           *)
RECURSIVE FlatLen(_)
FlatLen(d) ==
    CASE d.tag = "Text" -> Len(d.s)
      [] d.tag = "Space" -> 1
      [] d.tag = "Append" -> FlatLen(d.l) + FlatLen(d.r)
      [] d.tag \in {"FlatAlt", "Union"} -> FlatLen(d.r)
      [] d.tag \in Unary -> FlatLen(d.l)
      [] OTHER -> 0

(* A Newline lies on the flat traversal of d *)
RECURSIVE FlatHasNewline(_)
FlatHasNewline(d) ==
    CASE d.tag = "Newline" -> TRUE
      [] d.tag = "Append" -> FlatHasNewline(d.l) \/ FlatHasNewline(d.r)
      [] d.tag \in {"FlatAlt", "Union"} -> FlatHasNewline(d.r)
      [] d.tag \in Unary -> FlatHasNewline(d.l)
      [] OTHER -> FALSE

(* The text at the start of d up to its first Space or Newline, d taken in *)
(* mode Break (a FlatAlt by its broken branch, a Union by its second       *)
(* alternative); stop says that such a break was met                       *)
RECURSIVE BreakPrefix(_)
BreakPrefix(d) ==
    CASE d.tag = "Text" -> [len |-> Len(d.s), stop |-> FALSE]
      [] d.tag \in {"Space", "Newline"} -> [len |-> 0, stop |-> TRUE]
      [] d.tag = "Append" ->
            LET a == BreakPrefix(d.l) IN
            IF a.stop THEN a
            ELSE [len |-> a.len + BreakPrefix(d.r).len,
                  stop |-> BreakPrefix(d.r).stop]
      [] d.tag = "FlatAlt" -> BreakPrefix(d.l)
      [] d.tag = "Union" -> BreakPrefix(d.r)
      [] d.tag \in Unary -> BreakPrefix(d.l)
      [] OTHER -> [len |-> 0, stop |-> FALSE]

(* The text that follows on the same line in the pending work bc[1..i],    *)
(* the top of the stack first                                              *)
RECURSIVE Trail(_, _)
Trail(bc, i) ==
    IF i = 0 THEN 0
    ELSE LET a == BreakPrefix(Node(bc[i].doc)) IN
         IF a.stop THEN a.len ELSE a.len + Trail(bc, i - 1)

(* A Space of d that is not inside a nested Group *)
RECURSIVE HasDirectSpace(_)
HasDirectSpace(d) ==
    CASE d.tag = "Space" -> TRUE
      [] d.tag = "Append" -> HasDirectSpace(d.l) \/ HasDirectSpace(d.r)
      [] d.tag \in {"Nest", "Annotated"} -> HasDirectSpace(d.l)
      [] OTHER -> FALSE

(* Every Text of d in document order *)
RECURSIVE AllText(_)
AllText(d) ==
    CASE d.tag = "Text" -> d.s
      [] d.tag \in Binary -> AllText(d.l) \o AllText(d.r)
      [] d.tag \in Unary -> AllText(d.l)
      [] OTHER -> <<>>

(* The Text of d in document order, a FlatAlt giving its broken branch     *)
(* only and a Union one of its two alternatives only                       *)
RECURSIVE BrokenTexts(_)
BrokenTexts(d) ==
    CASE d.tag = "Text" -> {d.s}
      [] d.tag = "Append" ->
            {x \o y : x \in BrokenTexts(d.l), y \in BrokenTexts(d.r)}
      [] d.tag = "FlatAlt" -> BrokenTexts(d.l)
      [] d.tag = "Union" -> BrokenTexts(d.l) \cup BrokenTexts(d.r)
      [] d.tag \in Unary -> BrokenTexts(d.l)
      [] OTHER -> {<<>>}

(* The proper ancestors of the node at path p that are of variant tag *)
Ancestors(p, tag) ==
    {k \in 0 .. (Len(p) - 1) : Node(SubSeq(p, 1, k)).tag = tag}

(* The sum of the offsets of the Nest nodes enclosing the node at p *)
RECURSIVE SumOff(_, _)
SumOff(p, ks) ==
    IF ks = {} THEN 0
    ELSE LET k == CHOOSE x \in ks : TRUE IN
         Node(SubSeq(p, 1, k)).off + SumOff(p, ks \ {k})

NestSum(p) == SumOff(p, Ancestors(p, "Nest"))

(* Sink calls of one kind that succeeded *)
Count(op) ==
    Cardinality({i \in 1 .. Len(calls) :
                    calls[i].op = op /\ calls[i].res = "ok"})

(* Annotations pushed on the sink and not yet popped *)
Open == Count("push_annotation") - Count("pop_annotation")

(* Characters written since the most recent newline *)
LineLen(o) ==
    LET nl == {i \in 1 .. Len(o) : o[i] = "\n"} IN
    IF nl = {} THEN Len(o)
    ELSE Len(o) - (CHOOSE i \in nl : \A j \in nl : j <= i)

(* The last n characters of o *)
Suffix(o, n) == SubSeq(o, Len(o) - n + 1, Len(o))

Here == Node(cmd.doc)

(* The leaf just rendered is a break: a Newline, or a Space in mode Break *)
BreakLeaf ==
    \/ Here.tag = "Newline"
    \/ Here.tag = "Space" /\ cmd.mode = "Break"

(* best() is about to decide a Group met in mode Break *)
GroupDecision == pc = "match" /\ Here.tag = "Group" /\ cmd.mode = "Break"

(* best() is about to run the fitting probe *)
ProbePoint == GroupDecision \/ (pc = "match" /\ Here.tag = "Union")

(* Documents of Nil, Append, Text, Space, Nest and Group only *)
PlainLayout ==
    Tags(doc) \subseteq {"Nil", "Append", "Text", "Space", "Nest", "Group"}

----------------------------------------------------------------------------
(* C1. Annotation balance: when best() returns Ok, the sink has seen as    *)
(* many push_annotation calls as pop_annotation calls, also when two       *)
(* Annotated spans end at the same point.                                  *)
C1_AnnotationBalance ==
    (pc = "done" /\ result = "Ok") =>
        Count("push_annotation") = Count("pop_annotation")

(* C2. Annotation span exactness: whenever a character of a node is being  *)
(* written, the annotations open on the sink are exactly those of the      *)
(* Annotated nodes enclosing that node: each pop comes after the last      *)
(* character of its span and before the first character that follows it.   *)
C2_SpanExactness ==
    pc \in {"text", "newline", "nl_spaces", "flat_space"} =>
        Open = Cardinality(Ancestors(cmd.doc, "Annotated"))

(* C3 as claimed. Fits-on-one-line law: a Group met in mode Break whose    *)
(* flattened length is at most width - column is rendered in mode Flat,    *)
(* so that a Space directly inside it is not written as a newline.         *)
C3_FitsOnOneLine_Claimed ==
    [][(/\ GroupDecision
        /\ HasDirectSpace(Node(cmd.doc \o <<1>>))
        /\ FlatLen(Node(cmd.doc \o <<1>>)) <= width - pos)
           => cmd'.mode = "Flat"]_vars

(* C3 as amended. A Group met in mode Break that has no Newline on its     *)
(* flat traversal, and whose flattened length plus the text that follows   *)
(* it in the pending work up to the first pending Space or Newline is at   *)
(* most width - pos, is rendered in mode Flat; equality counts as fitting. *)
C3_FitsOnOneLine ==
    [][(/\ GroupDecision
        /\ ~FlatHasNewline(Node(cmd.doc \o <<1>>))
        /\ FlatLen(Node(cmd.doc \o <<1>>)) + Trail(bcmds, Len(bcmds))
               <= width - pos)
           => cmd'.mode = "Flat"]_vars

(* A first Group has just been entered in mode Flat with a Space inside,   *)
(* text following it on the line, and not one column to spare.             *)
C3_Witness ==
    /\ pc = "match"
    /\ cmd.mode = "Flat"
    /\ cmd.doc # <<>>
    /\ Node(Front(cmd.doc)).tag = "Group"
    /\ Ancestors(Front(cmd.doc), "Group") = {}
    /\ HasDirectSpace(Here)
    /\ Trail(bcmds, Len(bcmds)) > 0
    /\ FlatLen(Here) + Trail(bcmds, Len(bcmds)) = width - pos

(* C4. Overflow forces break: a Group (of a document of Nil, Append, Text, *)
(* Space, Nest and Group) that has a Space directly inside and whose       *)
(* flattened length exceeds width minus the characters already written on  *)
(* the current line is rendered in mode Break.                             *)
C4_OverflowForcesBreak ==
    [][(/\ pc = "match"
        /\ PlainLayout
        /\ Here.tag = "Group"
        /\ HasDirectSpace(Node(cmd.doc \o <<1>>))
        /\ FlatLen(Node(cmd.doc \o <<1>>)) > width - LineLen(out))
           => cmd'.mode = "Break"]_vars

(* C5. Width is respected: in a document of Nil, Append, Text, Space, Nest *)
(* and Group, a Text or Space written in mode Flat, that is inside a Group *)
(* best() decided to render Flat, ends at a column that is at most width.  *)
C5_WidthRespected ==
    (/\ PlainLayout
     /\ pc = "check"
     /\ cmd.mode = "Flat"
     /\ Here.tag \in {"Text", "Space"})
        => LineLen(out) <= width

(* C6. Indentation: a newline is followed by exactly k spaces, k the sum   *)
(* of the offsets of the Nest nodes enclosing the break, and pos is then k *)
C6_Indentation ==
    LET k == NestSum(cmd.doc) IN
    /\ pc = "nl_spaces" =>
          /\ spaces = k
          /\ inserted <= k
          /\ Len(out) > inserted
          /\ Suffix(out, inserted + 1) = <<"\n">> \o SpacesPrefix(inserted)
    /\ (pc = "check" /\ BreakLeaf) =>
          /\ Len(out) > k
          /\ Suffix(out, k + 1) = <<"\n">> \o SpacesPrefix(k)
          /\ pos = k

(* A break inside two nested Nest nodes has been written *)
C6_Witness ==
    /\ pc = "check"
    /\ BreakLeaf
    /\ Cardinality(Ancestors(cmd.doc, "Nest")) = 2
    /\ pos = 2

(* C7 as claimed. Text fidelity: a document without Newline, Space and     *)
(* Group renders to the concatenation of all its Text contents.            *)
C7_TextFidelity_Claimed ==
    (/\ pc = "done"
     /\ Tags(doc) \cap {"Newline", "Space", "Group"} = {})
        => out = AllText(doc)

(* C7 as amended. Such a document renders to the concatenation, in         *)
(* document order, of the Text contents of what is rendered: of a FlatAlt  *)
(* its broken branch only, of a Union one of its two alternatives only.    *)
C7_TextFidelity ==
    (/\ pc = "done"
     /\ Tags(doc) \cap {"Newline", "Space", "Group"} = {})
        => out \in BrokenTexts(doc)

(* A document with a FlatAlt has been rendered to less than all its Text *)
C7_Witness ==
    /\ pc = "done"
    /\ Tags(doc) \cap {"Newline", "Space", "Group"} = {}
    /\ "FlatAlt" \in Tags(doc)
    /\ out # <<>>
    /\ out # AllText(doc)

(* C8. Error abort: a sink call that failed is the last sink call, and     *)
(* best() has returned its error; nothing runs after it.                   *)
C8_ErrorAbort ==
    /\ \A i \in 1 .. Len(calls) :
          calls[i].res # "ok" =>
              /\ i = Len(calls)
              /\ pc = "err"
              /\ result = calls[i].res
    /\ pc = "err" =>
          /\ calls # <<>>
          /\ Last(calls).res \in Errors
          /\ ~ENABLED Next

(* A sink call failed after output was written, an annotation still open *)
C8_Witness ==
    /\ pc = "err"
    /\ Open > 0
    /\ out # <<>>
    /\ Last(calls).op = "write_str"

(* C9. Flat is inherited: a step on a node in mode Flat continues in mode  *)
(* Flat, pushes work items in mode Flat only, enters a Group without       *)
(* touching the probe's scratch stack, and writes a Space as one space.    *)
C9_FlatInherited ==
    [][/\ (pc = "match" /\ cmd.mode = "Flat") =>
             /\ cmd'.mode = "Flat"
             /\ Len(bcmds') >= Len(bcmds)
             /\ \A i \in 1 .. Len(bcmds') :
                   IF i <= Len(bcmds) THEN bcmds'[i] = bcmds[i]
                   ELSE bcmds'[i].mode = "Flat"
             /\ Here.tag = "Group" => fcmds' = fcmds
             /\ Here.tag = "Space" => (pc' = "flat_space" /\ spaces' = 1)
       /\ (pc = "flat_space" /\ pc' = "flat_space") =>
             (out' = Append(out, " ") /\ inserted' = spaces)
       /\ (pc = "flat_space" /\ pc' = "check") =>
             (out' = out /\ inserted = 1)
       /\ (pc = "pop" /\ pc' = "match") => cmd' = Last(bcmds)
      ]_vars

(* A Space inside a Group inside a Group has been written in mode Flat *)
C9_Witness ==
    /\ pc = "check"
    /\ cmd.mode = "Flat"
    /\ Here.tag = "Space"
    /\ Cardinality(Ancestors(cmd.doc, "Group")) >= 2
    /\ Last(out) = " "

----------------------------------------------------------------------------
(* C11. Column tracking: at every Group or Union decision point pos is the *)
(* number of characters written since the most recent newline, and a Space *)
(* written in mode Flat has advanced pos by one.                           *)
C11_ColumnTracking ==
    /\ ProbePoint => pos = LineLen(out)
    /\ (pc = "check" /\ Here.tag = "Space" /\ cmd.mode = "Flat") =>
          pos = LineLen(out)

----------------------------------------------------------------------------
(* The Text and Space nodes on the flat traversal of d *)
RECURSIVE FlatAtoms(_)
FlatAtoms(d) ==
    CASE d.tag \in {"Text", "Space"} -> 1
      [] d.tag = "Append" -> FlatAtoms(d.l) + FlatAtoms(d.r)
      [] d.tag \in {"FlatAlt", "Union"} -> FlatAtoms(d.r)
      [] d.tag \in Unary -> FlatAtoms(d.l)
      [] OTHER -> 0

(* The Text nodes at the start of d up to its first Space or Newline, d    *)
(* taken in mode Break                                                     *)
RECURSIVE BreakAtoms(_)
BreakAtoms(d) ==
    CASE d.tag = "Text" -> 1
      [] d.tag = "Append" ->
            IF BreakPrefix(d.l).stop THEN BreakAtoms(d.l)
            ELSE BreakAtoms(d.l) + BreakAtoms(d.r)
      [] d.tag = "FlatAlt" -> BreakAtoms(d.l)
      [] d.tag = "Union" -> BreakAtoms(d.r)
      [] d.tag \in Unary -> BreakAtoms(d.l)
      [] OTHER -> 0

(* The Text nodes that follow on the same line in the pending work *)
RECURSIVE TrailAtoms(_, _)
TrailAtoms(bc, i) ==
    IF i = 0 THEN 0
    ELSE IF BreakPrefix(Node(bc[i].doc)).stop
         THEN BreakAtoms(Node(bc[i].doc))
         ELSE BreakAtoms(Node(bc[i].doc)) + TrailAtoms(bc, i - 1)

(* C12 as claimed. Group decision rule: a Group met in mode Break is       *)
(* rendered Flat if and only if its flat traversal reaches no Newline and  *)
(* its flat length plus the text that follows it in the pending work up to *)
(* the first pending Space or Newline is at most width - pos.              *)
C12_GroupDecision_Claimed ==
    [][GroupDecision =>
          (cmd'.mode = "Flat" <=>
              /\ ~FlatHasNewline(Node(cmd.doc \o <<1>>))
              /\ FlatLen(Node(cmd.doc \o <<1>>)) + Trail(bcmds, Len(bcmds))
                     <= width - pos)]_vars

(* C12 as amended. ... if and only if its flat traversal reaches no        *)
(* Newline and either that length is at most width - pos or the traversal  *)
(* meets no Text and no Space at all, in the group and in the pending work *)
(* up to the first pending Space or Newline.                               *)
C12_GroupDecision ==
    [][GroupDecision =>
          (cmd'.mode = "Flat" <=>
              /\ ~FlatHasNewline(Node(cmd.doc \o <<1>>))
              /\ \/ FlatLen(Node(cmd.doc \o <<1>>)) + Trail(bcmds, Len(bcmds))
                        <= width - pos
                 \/ FlatAtoms(Node(cmd.doc \o <<1>>))
                        + TrailAtoms(bcmds, Len(bcmds)) = 0)]_vars

(* A Group that fits by itself has been entered in mode Break because of   *)
(* the text that follows it on the line                                    *)
C12_Witness ==
    /\ pc = "match"
    /\ cmd.mode = "Break"
    /\ cmd.doc # <<>>
    /\ Node(Front(cmd.doc)).tag = "Group"
    /\ ~FlatHasNewline(Here)
    /\ FlatLen(Here) > 0
    /\ FlatLen(Here) <= width - pos
    /\ FlatLen(Here) + Trail(bcmds, Len(bcmds)) > width - pos


(* C13. The probe simulates each pending item in the mode stored with it:  *)
(* when a Union is probed in mode Flat and the next pending item is a Space *)
(* stored in mode Flat, that Space costs one column, so a first alternative *)
(* that fills width - pos exactly does not fit and the second is rendered.  *)
C13_ProbeUsesStoredMode ==
    [][(/\ pc = "match"
        /\ Here.tag = "Union"
        /\ cmd.mode = "Flat"
        /\ bcmds # <<>>
        /\ Last(bcmds).mode = "Flat"
        /\ Node(Last(bcmds).doc).tag = "Space"
        /\ ~FlatHasNewline(Node(cmd.doc \o <<1>>))
        /\ FlatAtoms(Node(cmd.doc \o <<1>>)) > 0
        /\ FlatLen(Node(cmd.doc \o <<1>>)) = width - pos)
           => cmd'.doc = cmd.doc \o <<2>>]_vars


(* The flat traversal of d up to its first Newline: the length walked, the *)
(* Text and Space nodes met, and whether a Newline stopped it              *)
RECURSIVE FlatPrefix(_)
FlatPrefix(d) ==
    CASE d.tag = "Text" -> [len |-> Len(d.s), atoms |-> 1, stop |-> FALSE]
      [] d.tag = "Space" -> [len |-> 1, atoms |-> 1, stop |-> FALSE]
      [] d.tag = "Newline" -> [len |-> 0, atoms |-> 0, stop |-> TRUE]
      [] d.tag = "Append" ->
            LET a == FlatPrefix(d.l)
                b == FlatPrefix(d.r)
            IN IF a.stop THEN a
               ELSE [len |-> a.len + b.len, atoms |-> a.atoms + b.atoms,
                     stop |-> b.stop]
      [] d.tag \in {"FlatAlt", "Union"} -> FlatPrefix(d.r)
      [] d.tag \in Unary -> FlatPrefix(d.l)
      [] OTHER -> [len |-> 0, atoms |-> 0, stop |-> FALSE]

(* What is laid on the current line if d is rendered flat and the pending  *)
(* work follows it, up to the first hard newline or pending break          *)
LineAfter(d) ==
    LET a == FlatPrefix(d)
    IN IF a.stop THEN a
       ELSE [len |-> a.len + Trail(bcmds, Len(bcmds)),
             atoms |-> a.atoms + TrailAtoms(bcmds, Len(bcmds)),
             stop |-> FALSE]

(* C14. Union selection: at Union(l, r) the first alternative is taken if  *)
(* what it puts on the current line, up to its first hard newline or the   *)
(* first pending break, is within width - pos (or is empty), and the       *)
(* second otherwise; the step keeps the indent and the mode of the Union   *)
(* and pushes nothing, so exactly one alternative is rendered.             *)
C14_UnionSelection ==
    [][(pc = "match" /\ Here.tag = "Union") =>
          /\ cmd'.doc =
                IF \/ LineAfter(Node(cmd.doc \o <<1>>)).len <= width - pos
                   \/ LineAfter(Node(cmd.doc \o <<1>>)).atoms = 0
                THEN cmd.doc \o <<1>> ELSE cmd.doc \o <<2>>
          /\ cmd'.ind = cmd.ind
          /\ cmd'.mode = cmd.mode
          /\ bcmds' = bcmds
          /\ out' = out
          /\ pc' = "match"]_vars

(* The second alternative of a Union has been taken although the first     *)
(* fits by itself: the text that follows it does not                       *)
C14_Witness ==
    /\ pc = "match"
    /\ cmd.doc # <<>>
    /\ Node(Front(cmd.doc)).tag = "Union"
    /\ Last(cmd.doc) = 2
    /\ FlatPrefix(Node(Front(cmd.doc) \o <<1>>)).atoms > 0
    /\ FlatPrefix(Node(Front(cmd.doc) \o <<1>>)).len <= width - pos


(* Sink calls of one kind among the first n, whatever they returned *)
Called(op, n) == Cardinality({i \in 1 .. n : calls[i].op = op})

(* C18. At every prefix of the sink call sequence the pop_annotation calls *)
(* are at most the push_annotation calls, and pop_annotation is called     *)
(* only while annotation_levels is non-empty: the stack holds one entry    *)
(* for every push that succeeded and was not yet popped.                   *)
C18_NoUnmatchedPop ==
    /\ [](/\ \A n \in 0 .. Len(calls) :
                Called("pop_annotation", n) <= Called("push_annotation", n)
          /\ Len(annotation_levels) = Count("push_annotation")
                                         - Called("pop_annotation", Len(calls)))
    /\ [][(calls' # calls /\ Last(calls').op = "pop_annotation")
             => annotation_levels # <<>>]_vars

(* Two annotations were pushed one right after the other and two pops     *)
(* were made                                                               *)
C18_Witness ==
    /\ Len(calls) >= 4
    /\ \E i, j \in 1 .. Len(calls) :
          /\ i + 1 = j
          /\ calls[i].op = "push_annotation"
          /\ calls[j].op = "push_annotation"
    /\ Called("pop_annotation", Len(calls)) = 2


(* C19. The modes stored in the work stack are monotone from bottom to top *)
(* (no Break item above a Flat item); when the current item's mode is      *)
(* Break every item of the work stack is Break; a stored item is never     *)
(* altered and the current item never goes from Flat to Break.             *)
C19_ModeMonotone ==
    /\ [](/\ \A i, j \in 1 .. Len(bcmds) :
                (i < j /\ bcmds[i].mode = "Flat") => bcmds[j].mode = "Flat"
          /\ cmd.mode = "Break" =>
                \A i \in 1 .. Len(bcmds) : bcmds[i].mode = "Break")
    /\ [][/\ \A i \in 1 .. Len(bcmds) :
                i <= Len(bcmds') => bcmds'[i] = bcmds[i]
          /\ (pc = "match" /\ pc' = "match" /\ cmd.mode = "Flat")
                => cmd'.mode = "Flat"]_vars

(* The work stack holds a Flat item above a Break item: a Group entered in *)
(* mode Flat has pushed its pending part over the work that follows it     *)
C19_Witness ==
    /\ pc = "match"
    /\ cmd.mode = "Flat"
    /\ \E i, j \in 1 .. Len(bcmds) :
          i < j /\ bcmds[i].mode = "Break" /\ bcmds[j].mode = "Flat"

----------------------------------------------------------------------------
(* Partial writes and termination, under SpecPartial *)

(* p is q followed by at least one child step *)
StrictlyBelow(p, q) == Len(p) > Len(q) /\ SubSeq(p, 1, Len(q)) = q

(* C15. Termination: on a sink that never fails and consumes at least one  *)
(* character of every non-empty chunk, best() ends with Ok(()) and an      *)
(* empty work stack; every iteration of the inner loop either starts a     *)
(* leaf or replaces the current item by a strict sub-document, and every   *)
(* write_str call shortens what is left of the chunk.                      *)
C15_Termination ==
    /\ <>(pc = "done" /\ result = "Ok" /\ bcmds = <<>>)
    /\ [][pc = "match" =>
             \/ pc' = "match" /\ StrictlyBelow(cmd'.doc, cmd.doc)
             \/ pc' \in {"check", "text", "newline", "flat_space"}
                   /\ cmd' = cmd /\ Node(cmd.doc).tag \notin Binary \cup Unary]_vars
    /\ [][(pc \in {"text", "newline"} /\ wbuf # <<>>) =>
             Len(wbuf') < Len(wbuf)]_vars
    /\ [][(pc \in {"flat_space", "nl_spaces"} /\ inserted < spaces) =>
             inserted' > inserted]_vars

(* best() has returned Ok(()) after a Text was written in two calls *)
C15_Witness ==
    /\ pc = "done"
    /\ result = "Ok"
    /\ bcmds = <<>>
    /\ sink.partial
    /\ \E i \in 1 .. Len(calls) :
          i < Len(calls) /\ calls[i].arg = <<"b">> /\ calls[i + 1].arg = <<"b">>

(* n spaces *)
Blanks(n) == [i \in 1 .. n |-> " "]

(* The output of a document that has no Group and no Union: every Space    *)
(* and Newline is a newline followed by the indentation                    *)
RECURSIVE Broken(_, _)
Broken(d, ind) ==
    CASE d.tag = "Text" -> d.s
      [] d.tag \in {"Space", "Newline"} -> <<"\n">> \o Blanks(ind)
      [] d.tag = "Append" -> Broken(d.l, ind) \o Broken(d.r, ind)
      [] d.tag = "Nest" -> Broken(d.l, ind + d.off)
      [] d.tag \in {"FlatAlt", "Annotated"} -> Broken(d.l, ind)
      [] OTHER -> <<>>

(* C16. Partial writes: on a sink that accepts part of a chunk,            *)
(* write_str_all(s) delivers the characters of s in order, once each, and  *)
(* write_newline(ind) one newline followed by exactly ind spaces, also for *)
(* ind larger than SPACES: nothing is dropped or written twice.            *)
C16_PartialWrites ==
    /\ pc = "text" =>
          LET s == Node(cmd.doc).s IN
          /\ Len(wbuf) <= Len(s)
          /\ Suffix(out, Len(s) - Len(wbuf)) \o wbuf = s
    /\ pc = "nl_spaces" =>
          /\ spaces = cmd.ind
          /\ inserted <= spaces
          /\ Suffix(out, inserted + 1) = <<"\n">> \o Blanks(inserted)
    /\ (pc = "check" /\ BreakLeaf) =>
          Suffix(out, cmd.ind + 1) = <<"\n">> \o Blanks(cmd.ind)
    /\ (pc = "done" /\ Tags(doc) \cap {"Group", "Union"} = {}) =>
          out = Broken(doc, 0)

(* A newline with more indentation than SPACES holds has been completed by *)
(* calls of which one was cut short                                        *)
C16_Witness ==
    /\ pc = "check"
    /\ BreakLeaf
    /\ sink.partial
    /\ cmd.ind > SpacesLen
    /\ calls[Len(calls)].arg = <<" ">>
    /\ \E i \in 1 .. Len(calls) : Len(calls[i].arg) = SpacesLen - 1


----------------------------------------------------------------------------
(* The style-aware sink, under SpecTerm *)

(* C17. After any sequence of push_annotation / pop_annotation calls on    *)
(* TermColored the style last applied to the upstream writer is the one on *)
(* top of color_stack, or the default when the stack is empty; a pop       *)
(* removes the top and re-applies the enclosing style, and a pop on an     *)
(* empty stack leaves it empty and resets.                                 *)
C17_StyleAwareSink ==
    /\ [](upstream.style =
             IF color_stack = <<>> THEN "default"
             ELSE color_stack[Len(color_stack)])
    /\ [][(calls' # calls /\ Last(calls').op = "pop_annotation") =>
             /\ color_stack' = SubSeq(color_stack, 1, Len(color_stack) - 1)
             /\ Len(color_stack) <= 1 => upstream'.style = "default"
             /\ Len(color_stack) > 1 =>
                   upstream'.style = color_stack[Len(color_stack) - 1]]_vars

(* A pop on the empty stack, two pushes of different styles and a pop that *)
(* went back to the first of them                                          *)
C17_Witness ==
    /\ pc = "term"
    /\ Len(calls) = 4
    /\ calls[1].op = "pop_annotation"
    /\ calls[2].op = "push_annotation"
    /\ calls[3].op = "push_annotation"
    /\ calls[4].op = "pop_annotation"
    /\ calls[2].arg # calls[3].arg
    /\ color_stack = calls[2].arg
    /\ upstream.style = calls[2].arg[1]

====
